---- MODULE Spec2Model ----
(***************************************************************************)
(* A model of the mood-to-product recommender: the feedback log            *)
(* (src/src/utils.py), the product catalog and ranker                      *)
(* (src/src/recommender.py), the Spotify adapter                           *)
(* (src/src/integrations/spotify_utils.py) and the Streamlit flow that     *)
(* drives them (src/app.py).                                               *)
(***************************************************************************)
EXTENDS Integers, Sequences, FiniteSets, TLC

(***************************************************************************)
(* Bounds of the model.                                                    *)
(***************************************************************************)
\* the largest number of data rows the feedback log is let grow to
MaxLog == 3
\* the largest n_playlists asked of the adapter
MaxPlaylists == 2
\* the largest number of rows the catalog is let grow to
MaxCatalog == 3
\* the largest n_recommendations asked of the ranker
MaxRecommendations == 2
\* the largest number of feedback records the application is let submit
MaxSubmits == 1

(***************************************************************************)
(* The state.                                                              *)
(***************************************************************************)
VARIABLES
    \* the feedback log (src/src/utils.py)
    feedback_csv,          \* data/feedback.csv
    feedback_prev,         \* data/feedback.csv as it was before the last operation
    last_op,               \* the last feedback operation and its arguments
    summary,               \* what the last export_feedback_summary returned
    clock,                 \* datetime.now(), as a count of ticks
    \* the Spotify adapter (src/src/integrations/spotify_utils.py)
    spotify_recommender,   \* the global instance: created or not, client set or None
    adapter_op,            \* the last adapter call, its arguments and what it did
    playlists_result,      \* what the last get_playlists_by_mood returned
    \* the catalog and ranker, ProductRecommender (src/src/recommender.py)
    products_df,           \* self.products_df
    products_csv,          \* data/products.csv
    products_prev,         \* products_df and products_csv before the last operation
    cat_op,                \* the last catalog operation and its arguments
    recommendations,       \* what the last get_recommendations returned
    product,               \* what the last get_product_by_id returned
    \* the application, main() of src/app.py
    session_state,         \* st.session_state: analyzed_emotion, recommendations, playlists
    app_op,                \* the last run of main(): its inputs and the calls it made
    \* two log_feedback calls running at once (src/src/utils.py)
    log_writers            \* where each call stands and what it holds; the steps taken

fbvars == <<feedback_csv, feedback_prev, last_op, summary, clock>>
advars == <<spotify_recommender, adapter_op, playlists_result>>
catvars == <<products_df, products_csv, products_prev, cat_op, recommendations, product>>
appvars == <<session_state, app_op>>
convars == <<log_writers>>
vars == <<fbvars, advars, catvars, appvars, convars>>

(***************************************************************************)
(* Python / pandas cell values.  A value carries its type: an int, a float *)
(* (held exactly, in hundredths), a str, or a missing value (None / NaN).  *)
(***************************************************************************)
PyInt(k) == [t |-> "int", n |-> k, s |-> ""]
PyFloat(h) == [t |-> "float", n |-> h, s |-> ""]
PyStr(x) == [t |-> "str", n |-> 0, s |-> x]
NaN == [t |-> "nan", n |-> 0, s |-> ""]

(***************************************************************************)
(* DataFrame.to_csv: how one cell is written.  Integers in decimal, floats *)
(* by repr (at least one fractional digit), strings as they are, a missing *)
(* value as the empty field (na_rep = '').                                 *)
(***************************************************************************)
Digit == <<"0", "1", "2", "3", "4", "5", "6", "7", "8", "9">>

RECURSIVE NatText(_)
NatText(k) == IF k < 10 THEN Digit[k + 1] ELSE NatText(k \div 10) \o Digit[(k % 10) + 1]

IntText(k) == IF k < 0 THEN "-" \o NatText(0 - k) ELSE NatText(k)

FracText(c) ==
    IF c % 10 = 0 THEN Digit[(c \div 10) + 1]
    ELSE Digit[(c \div 10) + 1] \o Digit[(c % 10) + 1]

FloatText(h) ==
    LET a == IF h < 0 THEN 0 - h ELSE h
    IN  (IF h < 0 THEN "-" ELSE "") \o NatText(a \div 100) \o "." \o FracText(a % 100)

CellText(v) ==
    CASE v.t = "int" -> IntText(v.n)
      [] v.t = "float" -> FloatText(v.n)
      [] v.t = "str" -> v.s
      [] OTHER -> ""

(***************************************************************************)
(* pandas.read_csv: how one column is read back.  A field that is empty or *)
(* one of the default NA markers is missing; a column whose fields are all *)
(* integers is int64, one whose present fields are all numbers is float64  *)
(* (integers widened), any other column keeps its present fields as str.   *)
(***************************************************************************)
NaMarkers == {"", "N/A", "NA", "NULL", "NaN", "nan", "null", "n/a", "#N/A", "<NA>"}

\* the numbers a field of the model can spell
IntRange == -9 .. 20
FloatRange == (-100 .. 200) \cup {1999, 2500, 4550, 9999}

IntTexts == {IntText(k) : k \in IntRange}
FloatTexts == {FloatText(h) : h \in FloatRange}
IntOfText == [x \in IntTexts |-> CHOOSE k \in IntRange : IntText(k) = x]
FloatOfText == [x \in FloatTexts |-> CHOOSE h \in FloatRange : FloatText(h) = x]

IsIntText(x) == x \in IntTexts
IsFloatText(x) == x \in FloatTexts
ParseInt(x) == IntOfText[x]
ParseFloat(x) == FloatOfText[x]

ColumnType(texts) ==
    LET present == {x \in texts : x \notin NaMarkers}
    IN  IF present = texts /\ texts # {} /\ \A x \in texts : IsIntText(x) THEN "int"
        ELSE IF \A x \in present : IsIntText(x) \/ IsFloatText(x) THEN "float"
        ELSE "str"

ReadCell(ty, x) ==
    IF x \in NaMarkers THEN NaN
    ELSE CASE ty = "int" -> PyInt(ParseInt(x))
           [] ty = "float" -> IF IsIntText(x) THEN PyFloat(100 * ParseInt(x))
                              ELSE PyFloat(ParseFloat(x))
           [] OTHER -> PyStr(x)

(***************************************************************************)
(* The feedback log, data/feedback.csv.                                    *)
(***************************************************************************)
FeedbackColumns ==
    {"timestamp", "detected_emotion", "confidence", "rating", "feedback_text",
     "num_recommendations"}

\* the file: absent, zero bytes long, or a header line followed by rows of text fields
AbsentFile == [state |-> "absent", rows |-> <<>>]
ZeroByteFile == [state |-> "empty", rows |-> <<>>]
TableFile(rows) == [state |-> "table", rows |-> rows]

\* DataFrame.to_csv(index=False) of a frame of typed rows
to_csv(df) == TableFile([i \in 1 .. Len(df) |-> [c \in DOMAIN df[i] |-> CellText(df[i][c])]])

\* pandas.read_csv of a table file: every column typed from all of its fields
read_csv(file) ==
    LET rows == file.rows
        ColTexts(c) == {rows[i][c] : i \in 1 .. Len(rows)}
    IN  [i \in 1 .. Len(rows) |->
            [c \in DOMAIN rows[i] |-> ReadCell(ColumnType(ColTexts(c)), rows[i][c])]]

\* pd.concat([df, pd.DataFrame([row])], ignore_index=True): a column that
\* holds only numbers and missing values, not all of them ints, is float64 and
\* its ints are widened; every other value is kept as it is
ConcatRow(df, row) ==
    LET all == Append(df, row)
        Col(c) == {all[i][c] : i \in 1 .. Len(all)}
        IsFloatCol(c) ==
            /\ \A v \in Col(c) : v.t \in {"int", "float", "nan"}
            /\ \E v \in Col(c) : v.t \in {"float", "nan"}
            /\ \E v \in Col(c) : v.t \in {"int", "float"}
        Widen(c, v) == IF v.t = "int" /\ IsFloatCol(c) THEN PyFloat(100 * v.n) ELSE v
    IN  [i \in 1 .. Len(all) |-> [c \in DOMAIN all[i] |-> Widen(c, all[i][c])]]

NoArgs == [emotion |-> NaN, confidence |-> NaN, rating |-> NaN, feedback_text |-> NaN,
           num_recommendations |-> NaN]
Op(name, args, raised) == [name |-> name, args |-> args, raised |-> raised]

\* create_feedback_csv(): writes the header-only table unless the file exists
create_feedback_csv ==
    /\ feedback_prev' = feedback_csv
    /\ feedback_csv' = IF feedback_csv.state = "absent" THEN TableFile(<<>>) ELSE feedback_csv
    /\ last_op' = Op("create_feedback_csv", NoArgs, FALSE)
    /\ UNCHANGED <<summary, clock, advars, catvars, appvars, convars>>

\* the new_feedback dict of log_feedback
NewFeedback(now, args) ==
    [timestamp |-> PyStr("T" \o IntText(now)),
     detected_emotion |-> args.emotion,
     confidence |-> args.confidence,
     rating |-> args.rating,
     feedback_text |-> args.feedback_text,
     num_recommendations |-> args.num_recommendations]

\* the frame log_feedback writes back: the file read (an absent or zero-byte
\* file reads as the empty frame) with the new row appended
LogFeedbackFrame(file, now, args) ==
    LET df == IF file.state = "table" THEN read_csv(file) ELSE <<>>
    IN  ConcatRow(df, NewFeedback(now, args))

\* the arguments log_feedback is called with: the record of the end-to-end
\* scenario, a second valid record, a record of a failed analysis (emotion None),
\* records out of range in confidence and in rating, and a record whose text
\* spells an NA marker
FbArgs(e, c, r, x, k) ==
    [emotion |-> e, confidence |-> c, rating |-> r, feedback_text |-> x,
     num_recommendations |-> k]

FeedbackArgs ==
    {FbArgs(PyStr("sad"), PyFloat(82), PyInt(4), PyStr(""), PyInt(5)),
     FbArgs(PyStr("happy"), PyFloat(100), PyInt(5), PyStr("great"), PyInt(2)),
     FbArgs(NaN, PyFloat(0), PyInt(5), PyStr(""), PyInt(5)),
     FbArgs(PyStr("sad"), PyFloat(150), PyInt(4), PyStr(""), PyInt(5)),
     FbArgs(PyStr("happy"), PyFloat(82), PyInt(6), PyStr(""), PyInt(5)),
     FbArgs(PyStr("sad"), PyFloat(82), PyInt(4), PyStr("N/A"), PyInt(5))}

log_feedback(args) ==
    /\ Len(feedback_csv.rows) < MaxLog
    /\ feedback_prev' = feedback_csv
    /\ feedback_csv' = to_csv(LogFeedbackFrame(feedback_csv, clock, args))
    /\ clock' = clock + 1
    /\ last_op' = Op("log_feedback", args, FALSE)
    /\ UNCHANGED <<summary, advars, catvars, appvars, convars>>

(***************************************************************************)
(* export_feedback_summary.                                                *)
(***************************************************************************)
\* the values of one column of a frame, in row order, missing ones dropped
Present(df, c) == SelectSeq([i \in 1 .. Len(df) |-> df[i][c]], LAMBDA v : v.t # "nan")

RECURSIVE SumN(_)
SumN(vals) == IF vals = <<>> THEN 0 ELSE vals[1].n + SumN(Tail(vals))

\* Series.mean(): the mean of the present values as the fraction num/den
\* (den = 0: no present value, NaN); a float column counts in hundredths
Mean(df, c) ==
    LET vals == Present(df, c)
        unit == IF \E i \in 1 .. Len(vals) : vals[i].t = "float" THEN 100 ELSE 1
    IN  [num |-> SumN(vals), den |-> unit * Len(vals)]

\* Series.min() / Series.max(): NaN when no value is present
Min(df, c) ==
    LET vals == Present(df, c)
    IN  IF vals = <<>> THEN NaN
        ELSE CHOOSE v \in {vals[i] : i \in 1 .. Len(vals)} :
                \A j \in 1 .. Len(vals) : v.n <= vals[j].n

Max(df, c) ==
    LET vals == Present(df, c)
    IN  IF vals = <<>> THEN NaN
        ELSE CHOOSE v \in {vals[i] : i \in 1 .. Len(vals)} :
                \A j \in 1 .. Len(vals) : v.n >= vals[j].n

\* Series.value_counts().to_dict(): the present values, each with its count
ValueCounts(df, c) ==
    LET vals == Present(df, c)
    IN  [v \in {vals[i] : i \in 1 .. Len(vals)} |->
            Cardinality({i \in 1 .. Len(vals) : vals[i] = v})]

\* a column read back as str makes mean(), min() and max() raise TypeError
Numeric(df, c) == \A i \in 1 .. Len(df) : df[i][c].t # "str"

\* the None that export_feedback_summary returns for "no data"
NoSummary ==
    [none |-> TRUE, total_feedback |-> 0, average_rating |-> [num |-> 0, den |-> 0],
     emotion_distribution |-> <<>>,
     confidence_stats |-> [mean |-> [num |-> 0, den |-> 0], min |-> NaN, max |-> NaN]]

ExportFeedbackSummary(file) ==
    IF file.state # "table" THEN NoSummary
    ELSE LET df == read_csv(file)
         IN  IF df = <<>> THEN NoSummary
             ELSE IF ~(Numeric(df, "rating") /\ Numeric(df, "confidence")) THEN NoSummary
             ELSE [none |-> FALSE,
                   total_feedback |-> Len(df),
                   average_rating |-> Mean(df, "rating"),
                   emotion_distribution |-> ValueCounts(df, "detected_emotion"),
                   confidence_stats |-> [mean |-> Mean(df, "confidence"),
                                         min |-> Min(df, "confidence"),
                                         max |-> Max(df, "confidence")]]

export_feedback_summary ==
    /\ summary' = ExportFeedbackSummary(feedback_csv)
    /\ feedback_prev' = feedback_csv
    /\ last_op' = Op("export_feedback_summary", NoArgs, FALSE)
    /\ UNCHANGED <<feedback_csv, clock, advars, catvars, appvars, convars>>

\* rows that reach the file from outside the program: one whose rating is no
\* number, and one cut short after its second field
TextRow(ts, e, c, r, x, k) ==
    [timestamp |-> ts, detected_emotion |-> e, confidence |-> c, rating |-> r,
     feedback_text |-> x, num_recommendations |-> k]

BadRatingRow == TextRow("T0", "sad", "0.5", "five", "", "5")
ShortRow == TextRow("T0", "sad", "", "", "", "")

\* the state at process start, the log being one of `files`
FbInitFrom(files) ==
    /\ feedback_csv \in files
    /\ feedback_prev = feedback_csv
    /\ last_op = Op("init", NoArgs, FALSE)
    /\ summary = NoSummary
    /\ clock = 1

\* the log as the program itself can have left it: absent, cut to zero bytes,
\* or created and still without rows
FbInit == FbInitFrom({AbsentFile, ZeroByteFile, TableFile(<<>>)})

\* the log as another writer may have left it
FbInitForeign == FbInitFrom({TableFile(<<>>), TableFile(<<BadRatingRow>>), TableFile(<<ShortRow>>)})

\* a fresh installation: no log yet
FbStart == FbInitFrom({AbsentFile})

FbNext ==
    \/ create_feedback_csv
    \/ \E args \in FeedbackArgs : log_feedback(args)
    \/ export_feedback_summary

(***************************************************************************)
(* Python strings that the code takes apart.  Such a string is a sequence  *)
(* of tokens: a word, or the single blank " ".                             *)
(***************************************************************************)
\* str.lower() of one token
LowerToken(w) ==
    CASE w = "Happy" -> "happy"
      [] w = "HAPPY" -> "happy"
      [] w = "Sad" -> "sad"
      [] w = "Vibes" -> "vibes"
      [] w = "Hits" -> "hits"
      [] w = "Pop" -> "pop"
      [] w = "Chill" -> "chill"
      [] w = "Mix" -> "mix"
      [] OTHER -> w

Lower(str) == [i \in 1 .. Len(str) |-> LowerToken(str[i])]

RECURSIVE LStrip(_)
LStrip(str) == IF str # <<>> /\ str[1] = " " THEN LStrip(Tail(str)) ELSE str

RECURSIVE RStrip(_)
RStrip(str) ==
    IF str # <<>> /\ str[Len(str)] = " " THEN RStrip(SubSeq(str, 1, Len(str) - 1)) ELSE str

\* str.strip()
Strip(str) == RStrip(LStrip(str))

\* len(str): the characters of all its tokens
RECURSIVE StrLen(_)
StrLen(str) == IF str = <<>> THEN 0 ELSE Len(str[1]) + StrLen(Tail(str))

\* a str argument, or None
Str(tokens) == [none |-> FALSE, str |-> tokens]
None == [none |-> TRUE, str |-> <<>>]

\* "not x" of a str-or-None argument
Falsy(x) == x.none \/ x.str = <<>>

(***************************************************************************)
(* The Spotify adapter, SpotifyMoodRecommender.                            *)
(***************************************************************************)
\* self.mood_keywords
MoodKeywords ==
    [happy |-> <<"happy", "upbeat", "positive", "cheerful", "joyful">>,
     sad |-> <<"sad", "melancholy", "emotional", "heartbreak", "blue">>,
     angry |-> <<"angry", "rage", "metal", "punk", "aggressive">>,
     surprised |-> <<"energetic", "exciting", "surprise", "uplifting", "dynamic">>,
     fear |-> <<"calm", "relaxing", "soothing", "peaceful", "meditation">>,
     disgust |-> <<"alternative", "indie", "experimental", "unique", "different">>,
     neutral |-> <<"chill", "ambient", "focus", "study", "background">>,
     energetic |-> <<"workout", "pump up", "energetic", "motivation", "power">>,
     relaxed |-> <<"chill", "lounge", "ambient", "relaxing", "calm">>,
     romantic |-> <<"love", "romantic", "valentine", "date night", "intimate">>]

\* the terms used for a mood no key matches
GenericTerms == <<"music", "playlist", "songs">>

\* _get_search_terms(mood): the mood lower-cased and stripped, looked up
GetSearchTerms(mood) ==
    LET mood_lower == Strip(Lower(mood))
    IN  IF Len(mood_lower) = 1 /\ mood_lower[1] \in DOMAIN MoodKeywords
        THEN MoodKeywords[mood_lower[1]]
        ELSE GenericTerms

\* the search terms tried per call, the page size asked of the provider, the
\* over-fetch factor, and the quality thresholds of get_playlists_by_mood
MaxTerms == 3
SearchLimit == 10
OverFetch == 2
MinNameLen == 3
MinTracks == 10

\* One raw item of a provider response.  null: the item itself is None; name:
\* the 'name' value (<<>>: missing or empty); urls: 'external_urls' is missing
\* or empty ("none"), a mapping without the 'spotify' key ("nokey"), or has it
\* ("ok"); tracks, owner: the key is absent, holds None ("null"), or a mapping.
Raw(name, urls, tracks, total, owner, id) ==
    [null |-> FALSE, name |-> name, urls |-> urls, tracks |-> tracks, total |-> total,
     owner |-> owner, id |-> id]
NullItem == [null |-> TRUE, name |-> <<>>, urls |-> "none", tracks |-> "absent", total |-> 0,
             owner |-> "absent", id |-> 0]

\* the normalized playlist_data of one raw item (image and description carry
\* no decision and are left out)
PlaylistData(raw) ==
    [name |-> raw.name,
     url |-> raw.id,
     total_tracks |-> IF raw.tracks = "dict" THEN raw.total ELSE 0,
     owner |-> IF raw.owner = "dict" THEN "owner" ELSE "Unknown"]

\* the items _search_playlists keeps: not None, with a name and external_urls
Kept(raw) == ~raw.null /\ raw.name # <<>> /\ raw.urls # "none"

\* building playlist_data of a kept item raises: external_urls['spotify'] is a
\* KeyError, None.get(...) of a null tracks or owner an AttributeError
Raises(raw) == Kept(raw) /\ (raw.urls = "nokey" \/ raw.tracks = "null" \/ raw.owner = "null")

\* the outcome of one client.search call: it raised, or it returned items
Raise == [raised |-> TRUE, items |-> <<>>]
Items(items) == [raised |-> FALSE, items |-> items]

\* _search_playlists(term, limit): a raise anywhere in the try block gives []
SearchPlaylists(outcome) ==
    IF outcome.raised \/ \E i \in 1 .. Len(outcome.items) : Raises(outcome.items[i])
    THEN <<>>
    ELSE LET kept == SelectSeq(outcome.items, Kept)
         IN  [i \in 1 .. Len(kept) |-> PlaylistData(kept[i])]

\* the search loop with a raise of the provider ending the call with no
\* playlists
RECURSIVE SearchLoop_RaiseEnds(_, _, _, _, _, _)
SearchLoop_RaiseEnds(terms, i, outcomes, n_playlists, all_playlists, queries) ==
    IF i > Len(terms) \/ i > MaxTerms THEN [all |-> all_playlists, queries |-> queries]
    ELSE LET all == all_playlists \o SearchPlaylists(outcomes[i])
             sent == Append(queries, [q |-> terms[i] \o " playlist", limit |-> SearchLimit])
         IN  IF outcomes[i].raised THEN [all |-> <<>>, queries |-> sent]
             ELSE IF Len(all) >= n_playlists * OverFetch
             THEN [all |-> all, queries |-> sent]
             ELSE SearchLoop_RaiseEnds(terms, i + 1, outcomes, n_playlists, all, sent)

\* the search loop without the early stop
RECURSIVE SearchLoop_NoStop(_, _, _, _, _, _)
SearchLoop_NoStop(terms, i, outcomes, n_playlists, all_playlists, queries) ==
    IF i > Len(terms) \/ i > MaxTerms THEN [all |-> all_playlists, queries |-> queries]
    ELSE SearchLoop_NoStop(terms, i + 1, outcomes, n_playlists,
                           all_playlists \o SearchPlaylists(outcomes[i]),
                           Append(queries, [q |-> terms[i] \o " playlist",
                                            limit |-> SearchLimit]))

\* the search loop of get_playlists_by_mood from term i on: the queries sent
\* and the playlists accumulated, stopping after the term that brings the
\* accumulated count to OverFetch * n_playlists
RECURSIVE SearchLoop(_, _, _, _, _, _)
SearchLoop(terms, i, outcomes, n_playlists, all_playlists, queries) ==
    IF i > Len(terms) \/ i > MaxTerms THEN [all |-> all_playlists, queries |-> queries]
    ELSE LET all == all_playlists \o SearchPlaylists(outcomes[i])
             sent == Append(queries, [q |-> terms[i] \o " playlist", limit |-> SearchLimit])
         IN  IF Len(all) >= n_playlists * OverFetch
             THEN [all |-> all, queries |-> sent]
             ELSE SearchLoop(terms, i + 1, outcomes, n_playlists, all, sent)

\* the quality conditions with the two bounds let through
PassesQuality_AtLeast(playlist) ==
    StrLen(playlist.name) >= MinNameLen /\ playlist.total_tracks >= MinTracks

\* the quality conditions of the loop: a name longer than 3, more than 10 tracks
PassesQuality(playlist) ==
    StrLen(playlist.name) > MinNameLen /\ playlist.total_tracks > MinTracks

\* the duplicate / quality loop of get_playlists_by_mood over the playlists
\* from index i on
RECURSIVE UniqueLoop(_, _, _, _, _)
UniqueLoop(all_playlists, i, n_playlists, seen_names, unique_playlists) ==
    IF i > Len(all_playlists) THEN unique_playlists
    ELSE LET playlist == all_playlists[i]
             name_lower == Lower(playlist.name)
         IN  IF name_lower \notin seen_names /\ PassesQuality(playlist)
             THEN LET unique == Append(unique_playlists, playlist)
                  IN  IF Len(unique) >= n_playlists THEN unique
                      ELSE UniqueLoop(all_playlists, i + 1, n_playlists,
                                      seen_names \cup {name_lower}, unique)
             ELSE UniqueLoop(all_playlists, i + 1, n_playlists, seen_names, unique_playlists)

\* unique_playlists[:n_playlists], n_playlists >= 0
FirstN(seq, n) == SubSeq(seq, 1, IF n < Len(seq) THEN n ELSE Len(seq))

\* a variant of get_playlists_by_mood without the check of self.client
GetPlaylistsByMood_NoGuard(client, mood, n_playlists, outcomes) ==
    LET m == IF Falsy(mood) THEN <<"music">> ELSE mood.str
        found == SearchLoop(GetSearchTerms(m), 1, outcomes, n_playlists, <<>>, <<>>)
        unique == UniqueLoop(found.all, 1, n_playlists, {}, <<>>)
    IN  [result |-> FirstN(unique, n_playlists), queries |-> found.queries, raised |-> FALSE,
         all_playlists |-> found.all, answers |-> SubSeq(outcomes, 1, Len(found.queries))]

\* SpotifyMoodRecommender.get_playlists_by_mood(mood, n_playlists) on an
\* instance whose client is set (client = TRUE) or None; outcomes[i] is what
\* the provider does with the i-th search.  Returns the list, the queries sent,
\* the provider's answers to them and the playlists accumulated from them.
GetPlaylistsByMood(client, mood, n_playlists, outcomes) ==
    IF ~client THEN [result |-> <<>>, queries |-> <<>>, raised |-> FALSE,
                     all_playlists |-> <<>>, answers |-> <<>>]
    ELSE LET m == IF Falsy(mood) THEN <<"music">> ELSE mood.str
             found == SearchLoop(GetSearchTerms(m), 1, outcomes, n_playlists, <<>>, <<>>)
             unique == UniqueLoop(found.all, 1, n_playlists, {}, <<>>)
         IN  [result |-> FirstN(unique, n_playlists), queries |-> found.queries,
              raised |-> FALSE, all_playlists |-> found.all,
              answers |-> SubSeq(outcomes, 1, Len(found.queries))]

(***************************************************************************)
(* The module-level adapter: the global _spotify_recommender, created on   *)
(* first use, and the functions that go through it.                        *)
(***************************************************************************)
\* _spotify_recommender = None
NotCreated == [created |-> FALSE, client |-> FALSE]

\* What the process finds when it initializes the client: the two credentials
\* in the environment, whether the client objects can be built, and whether
\* the test search succeeds.
Environments ==
    [client_id : BOOLEAN, client_secret : BOOLEAN, construct_ok : BOOLEAN, smoke_ok : BOOLEAN]

\* _initialize_client(): TRUE when self.client is left set, FALSE when None
InitializeClient(e) ==
    IF ~e.client_id \/ ~e.client_secret THEN FALSE
    ELSE IF ~e.construct_ok THEN FALSE
    ELSE IF ~e.smoke_ok THEN FALSE
    ELSE TRUE

\* a variant of get_spotify_recommender that builds a new instance whenever
\* the cached one has no client
GetSpotifyRecommender_Retry(global, e) ==
    IF global.created /\ global.client THEN global
    ELSE [created |-> TRUE, client |-> InitializeClient(e)]

\* get_spotify_recommender(): the cached instance, built on first use
GetSpotifyRecommender(global, e) ==
    IF global.created THEN global
    ELSE [created |-> TRUE, client |-> InitializeClient(e)]

\* the raw items the provider answers with
HappyVibes == Raw(<<"Happy", " ", "Vibes">>, "ok", "dict", 50, "dict", 1)
happy_vibes == Raw(<<"happy", " ", "vibes">>, "ok", "dict", 40, "dict", 2)
HappyVibesSmall == Raw(<<"Happy", " ", "Vibes">>, "ok", "dict", 5, "dict", 3)
Hits == Raw(<<"Hits">>, "ok", "dict", 11, "dict", 4)
Pop == Raw(<<"Pop">>, "ok", "dict", 50, "dict", 5)
ChillMix == Raw(<<"Chill", " ", "Mix">>, "ok", "dict", 10, "absent", 6)
NoName == Raw(<<>>, "ok", "dict", 50, "dict", 7)
NullTracks == Raw(<<"Sad", " ", "Mix">>, "ok", "null", 0, "dict", 8)
NoSpotifyKey == Raw(<<"Sad", " ", "Hits">>, "nokey", "dict", 50, "dict", 9)

\* what one client.search call can do
Outcomes ==
    {Raise,
     Items(<<HappyVibes, happy_vibes, Hits>>),
     Items(<<HappyVibesSmall, happy_vibes, Pop>>),
     Items(<<NoName, NullItem, ChillMix>>),
     Items(<<Hits, NullTracks>>),
     Items(<<HappyVibes, NoSpotifyKey>>)}

\* the moods and counts the adapter is called with
Moods == {Str(<<"happy">>), Str(<<" ", "Happy", " ">>), Str(<<"zen">>), Str(<<>>), None}
PlaylistCounts == 0 .. MaxPlaylists

\* no environment looked at
NoEnv == [client_id |-> FALSE, client_secret |-> FALSE, construct_ok |-> FALSE, smoke_ok |-> FALSE]

AdapterOp(name, mood, n, made, e, got) ==
    [name |-> name, mood |-> mood, n_playlists |-> n,
     initialized |-> made, env |-> IF made THEN e ELSE NoEnv,
     queries |-> got.queries, raised |-> got.raised,
     answers |-> got.answers, all_playlists |-> got.all_playlists]

NoCall == [result |-> <<>>, queries |-> <<>>, raised |-> FALSE, all_playlists |-> <<>>,
           answers |-> <<>>]

\* the environment a call runs in; a Ready instance never looks at it again
EnvRead(global) == IF global.created /\ global.client THEN {NoEnv} ELSE Environments

\* the provider's answers to the searches of a call (the second search may be
\* answered unlike the others): they are looked at only when a client is set
Answers(recommender) ==
    IF recommender.client
    THEN {[i \in 1 .. MaxTerms |-> IF i = 2 THEN b ELSE a] : a, b \in Outcomes}
    ELSE {[i \in 1 .. MaxTerms |-> Raise]}

\* the module-level get_playlists_by_mood(mood, n_playlists)
get_playlists_by_mood(mood, n_playlists) ==
    \E e \in EnvRead(spotify_recommender) :
        LET recommender == GetSpotifyRecommender(spotify_recommender, e)
        IN  \E outcomes \in Answers(recommender) :
                LET got == GetPlaylistsByMood(recommender.client, mood, n_playlists, outcomes)
                IN  /\ spotify_recommender' = recommender
                    /\ playlists_result' = got.result
                    /\ adapter_op' = AdapterOp("get_playlists_by_mood", mood, n_playlists,
                                               ~spotify_recommender.created, e, got)
                    /\ UNCHANGED <<fbvars, catvars, appvars, convars>>

\* the module-level is_spotify_available()
is_spotify_available ==
    \E e \in EnvRead(spotify_recommender) :
        LET recommender == GetSpotifyRecommender(spotify_recommender, e)
        IN  /\ spotify_recommender' = recommender
            /\ adapter_op' = AdapterOp("is_spotify_available", None, 0,
                                       ~spotify_recommender.created, e, NoCall)
            /\ UNCHANGED <<playlists_result, fbvars, catvars, appvars, convars>>

AdInit ==
    /\ spotify_recommender = NotCreated
    /\ adapter_op = AdapterOp("init", None, 0, FALSE, NoEnv, NoCall)
    /\ playlists_result = <<>>

AdNext ==
    \/ \E mood \in Moods, n \in PlaylistCounts : get_playlists_by_mood(mood, n)
    \/ is_spotify_available

(***************************************************************************)
(* The catalog and the ranker, ProductRecommender.                         *)
(***************************************************************************)
Columns == {"product_id", "name", "price", "image_url", "mood_tags"}

\* a row of the frame: a value per column
Row(id, name, price, image_url, mood_tags) ==
    [product_id |-> id, name |-> name, price |-> price, image_url |-> image_url,
     mood_tags |-> mood_tags]

\* sample_products of _create_sample_products
SampleProducts ==
    <<Row(PyInt(1), PyStr("Wireless Bluetooth Headphones"), PyFloat(9999),
          PyStr("https://images.unsplash.com/photo-1505740420928-5e560c06d30e?w=300"),
          PyStr("entertainment, music, joy, fun")),
      Row(PyInt(2), PyStr("Aromatherapy Essential Oil Set"), PyFloat(4550),
          PyStr("https://images.unsplash.com/photo-1544947950-fa07a98d237f?w=300"),
          PyStr("comfort, relaxation, healing, calming"))>>

\* self.emotion_mapping
EmotionMapping ==
    [happy |-> <<"entertainment", "social", "celebration", "joy", "fun", "colorful">>,
     sad |-> <<"comfort", "cozy", "self-care", "healing", "soft", "warm">>,
     angry |-> <<"stress-relief", "physical", "intense", "powerful", "bold">>,
     surprise |-> <<"unique", "innovative", "exciting", "novel", "creative">>,
     fear |-> <<"safety", "security", "protective", "calming", "reassuring">>,
     disgust |-> <<"cleansing", "fresh", "pure", "minimal", "detox">>,
     neutral |-> <<"practical", "everyday", "basic", "functional", "versatile">>]

\* the tokens of the mood_tags texts of the model: words, blanks and commas
TagTokens ==
    [x \in {"entertainment, music, joy, fun", "comfort, relaxation, healing, calming",
            "comfort, healing", "Fun, Colorful ,joy"} |->
        CASE x = "entertainment, music, joy, fun" ->
                <<"entertainment", ",", " ", "music", ",", " ", "joy", ",", " ", "fun">>
          [] x = "comfort, relaxation, healing, calming" ->
                <<"comfort", ",", " ", "relaxation", ",", " ", "healing", ",", " ", "calming">>
          [] x = "comfort, healing" -> <<"comfort", ",", " ", "healing">>
          [] OTHER -> <<"Fun", ",", " ", "Colorful", " ", ",", "joy">>]

LowerTag(w) ==
    CASE w = "Fun" -> "fun"
      [] w = "Colorful" -> "colorful"
      [] OTHER -> LowerToken(w)

\* str(value)
StrOf(v) ==
    CASE v.t = "nan" -> "nan"
      [] v.t = "int" -> IntText(v.n)
      [] v.t = "float" -> FloatText(v.n)
      [] OTHER -> v.s

\* the tokens of a text; a text not listed is one word
Tokens(x) == IF x \in DOMAIN TagTokens THEN TagTokens[x] ELSE <<x>>

\* str.split(','): the pieces between the commas
RECURSIVE SplitComma(_, _)
SplitComma(str, piece) ==
    IF str = <<>> THEN <<piece>>
    ELSE IF str[1] = "," THEN <<piece>> \o SplitComma(Tail(str), <<>>)
    ELSE SplitComma(Tail(str), Append(piece, str[1]))

\* [tag.strip() for tag in str(mood_tags).lower().split(',')], as a set
ProductTags(mood_tags) ==
    LET lowered == [i \in 1 .. Len(Tokens(StrOf(mood_tags))) |->
                        LowerTag(Tokens(StrOf(mood_tags))[i])]
        pieces == SplitComma(lowered, <<>>)
    IN  {Strip(pieces[i]) : i \in 1 .. Len(pieces)}

\* set(emotion_tags)
EmotionTags(label) == {<<EmotionMapping[label][i]>> : i \in 1 .. Len(EmotionMapping[label])}

\* the share of the emotion's tags that the product has
Jaccard_OverEmotion(emotion_tags, product_tags) ==
    [num |-> Cardinality(emotion_tags \cap product_tags),
     den |-> Cardinality(emotion_tags)]

\* len(intersection) / len(union), as the fraction num/den
Jaccard(emotion_tags, product_tags) ==
    [num |-> Cardinality(emotion_tags \cap product_tags),
     den |-> Cardinality(emotion_tags \cup product_tags)]

\* np.random.uniform(-0.1, 0.1), in hundredths
Perturbations == {-10, 0, 10}

\* score a (a fraction plus a perturbation) is greater than score b
Greater(a, b) ==
    100 * a.j.num * b.j.den + a.p * a.j.den * b.j.den
        > 100 * b.j.num * a.j.den + b.p * a.j.den * b.j.den

\* sort_values('relevance_score', ascending=False): the row numbers by falling
\* score, rows of equal score in catalog order
RECURSIVE SortDescending(_, _)
SortDescending(scores, left) ==
    IF left = {} THEN <<>>
    ELSE LET first == CHOOSE i \in left :
                        \A k \in left \ {i} :
                            Greater(scores[i], scores[k])
                                \/ (~Greater(scores[k], scores[i]) /\ i < k)
         IN  <<first>> \o SortDescending(scores, left \ {first})

\* the emotion after emotion.lower(), when it is a key of the mapping
KnownEmotion(emotion) ==
    Len(Lower(emotion)) = 1 /\ Lower(emotion)[1] \in DOMAIN EmotionMapping

\* get_recommendations for a known emotion: noise[i] is the perturbation drawn
\* for row i
Ranked(df, emotion, n_recommendations, noise) ==
    LET emotion_tags == EmotionTags(Lower(emotion)[1])
        scores == [i \in 1 .. Len(df) |->
                      [j |-> Jaccard(emotion_tags, ProductTags(df[i].mood_tags)),
                       p |-> noise[i]]]
        order == FirstN(SortDescending(scores, 1 .. Len(df)), n_recommendations)
    IN  [i \in 1 .. Len(order) |-> df[order[i]]]

\* DataFrame.sample(n): the ways to draw n distinct row numbers
Samples(len, n) ==
    {sq \in [1 .. n -> 1 .. len] : \A i, k \in 1 .. n : i # k => sq[i] # sq[k]}

\* the results get_recommendations(emotion, n_recommendations) can return
GetRecommendations(df, emotion, n_recommendations) ==
    IF df = <<>> THEN {<<>>}
    ELSE IF ~KnownEmotion(emotion)
    THEN LET n == IF n_recommendations < Len(df) THEN n_recommendations ELSE Len(df)
         IN  {[i \in 1 .. n |-> df[sq[i]]] : sq \in Samples(Len(df), n)}
    ELSE {Ranked(df, emotion, n_recommendations, noise) :
            noise \in [1 .. Len(df) -> Perturbations]}

\* Python's == between two cell values
PyEq(a, b) ==
    CASE a.t = "nan" \/ b.t = "nan" -> FALSE
      [] a.t = "str" \/ b.t = "str" -> a.t = b.t /\ a.s = b.s
      [] a.t = b.t -> a.n = b.n
      [] a.t = "int" -> 100 * a.n = b.n
      [] OTHER -> a.n = 100 * b.n

NotFound == [found |-> FALSE, row |-> Row(NaN, NaN, NaN, NaN, NaN)]

\* get_product_by_id(product_id): the first row whose product_id equals it
GetProductById(df, product_id) ==
    LET hits == SelectSeq(df, LAMBDA r : PyEq(r.product_id, product_id))
    IN  IF hits = <<>> THEN NotFound ELSE [found |-> TRUE, row |-> hits[1]]

\* a product_data dict: its keys, and the row a frame makes of it (a column the
\* dict has no key for is missing)
Item(keys, row) == [keys |-> keys, row |-> [c \in Columns |-> IF c \in keys THEN row[c] ELSE NaN]]

\* validate_product_data(product_data): TRUE for (True, "Valid")
ValidateProductData(item) ==
    LET FloatOk(v) == v.t \in {"int", "float"} \/ (v.t = "str" /\ (IsIntText(v.s) \/ IsFloatText(v.s)))
        IntOk(v) == v.t \in {"int", "float"} \/ (v.t = "str" /\ IsIntText(v.s))
    IN  /\ {"product_id", "name", "price", "mood_tags"} \subseteq item.keys
        /\ FloatOk(item.row.price)
        /\ IntOk(item.row.product_id)

\* the items add_product is called with: a new valid item, a valid item whose
\* id the sample catalog already uses, an item without a price, and an item
\* whose id is no integer and whose price is negative
ItemNew ==
    Item(Columns, Row(PyInt(3), PyStr("Yoga Mat"), PyFloat(2500), PyStr("http://x/3"),
                      PyStr("comfort, healing")))
ItemDup ==
    Item(Columns, Row(PyInt(1), PyStr("Party Lights"), PyFloat(1999), PyStr("http://x/1"),
                      PyStr("Fun, Colorful ,joy")))
ItemNoPrice ==
    Item(Columns \ {"price"}, Row(PyInt(4), PyStr("Notebook"), NaN, PyStr("http://x/4"),
                                  PyStr("practical")))
ItemBadTypes ==
    Item(Columns, Row(PyStr("abc"), PyStr("Candle"), PyFloat(-50), PyStr("http://x/5"),
                      PyStr("fun")))

ProductItems == {ItemNew, ItemDup, ItemNoPrice, ItemBadTypes}

\* the emotions and counts the ranker is called with, the ids looked up
RankerEmotions == {<<"happy">>, <<"Sad">>, <<" ", "happy", " ">>}
RecommendationCounts == 0 .. MaxRecommendations
LookupIds == {PyInt(1), PyInt(3)}

NoItem == Item({}, Row(NaN, NaN, NaN, NaN, NaN))
CatOp(name, item, emotion, n, id, raised) ==
    [name |-> name, item |-> item, emotion |-> emotion, n_recommendations |-> n,
     product_id |-> id, raised |-> raised]
Snapshot == [df |-> products_df, csv |-> products_csv]

\* a process holds a ProductRecommender: none was stopped or has crashed
Running == cat_op.name \notin {"stopped", "crashed"}

\* load_products(): the file read, or the sample catalog created when it is absent
load_products ==
    /\ products_prev' = Snapshot
    /\ IF products_csv.state = "table"
       THEN products_df' = read_csv(products_csv) /\ UNCHANGED products_csv
       ELSE products_df' = SampleProducts /\ products_csv' = to_csv(SampleProducts)
    /\ cat_op' = CatOp("load_products", NoItem, <<>>, 0, NaN, FALSE)
    /\ UNCHANGED <<recommendations, product, fbvars, advars, appvars, convars>>

\* add_product(product_data): the row appended and the whole file rewritten
add_product(item) ==
    /\ Running
    /\ Len(products_df) < MaxCatalog
    /\ products_prev' = Snapshot
    /\ products_df' = ConcatRow(products_df, item.row)
    /\ products_csv' = to_csv(products_df')
    /\ cat_op' = CatOp("add_product", item, <<>>, 0, NaN, FALSE)
    /\ UNCHANGED <<recommendations, product, fbvars, advars, appvars, convars>>

get_recommendations(emotion, n_recommendations) ==
    /\ Running
    /\ products_prev' = Snapshot
    /\ recommendations' \in GetRecommendations(products_df, emotion, n_recommendations)
    /\ cat_op' = CatOp("get_recommendations", NoItem, emotion, n_recommendations, NaN, FALSE)
    /\ UNCHANGED <<products_df, products_csv, product, fbvars, advars, appvars, convars>>

get_product_by_id(product_id) ==
    /\ Running
    /\ products_prev' = Snapshot
    /\ product' = GetProductById(products_df, product_id)
    /\ cat_op' = CatOp("get_product_by_id", NoItem, <<>>, 0, product_id, FALSE)
    /\ UNCHANGED <<products_df, products_csv, recommendations, fbvars, advars, appvars, convars>>

\* after ProductRecommender(): no products.csv was there, the sample catalog
\* was created and written
CatInit ==
    /\ products_df = SampleProducts
    /\ products_csv = to_csv(SampleProducts)
    /\ products_prev = [df |-> products_df, csv |-> products_csv]
    /\ cat_op = CatOp("init", NoItem, <<>>, 0, NaN, FALSE)
    /\ recommendations = <<>>
    /\ product = NotFound

\* What a crash during df.to_csv(path) can leave of the file: to_csv opens the
\* path for writing, which empties it, and then writes the header and the
\* rows; the process can die before the open, after it, or after any part of
\* the text has reached the file (here: after any whole number of rows).
CrashedWrites(old, df) ==
    {old, ZeroByteFile, to_csv(df)} \cup {to_csv(SubSeq(df, 1, k)) : k \in 0 .. Len(df) - 1}

\* add_product(product_data) in a process that dies while it rewrites the file
add_product_crash(item) ==
    /\ Running
    /\ Len(products_df) < MaxCatalog
    /\ products_prev' = Snapshot
    /\ products_df' = <<>>
    /\ products_csv' \in CrashedWrites(products_csv, ConcatRow(products_df, item.row))
    /\ cat_op' = CatOp("crashed", item, <<>>, 0, NaN, FALSE)
    /\ UNCHANGED <<recommendations, product, fbvars, advars, appvars, convars>>

\* ProductRecommender() in a process that finds no readable products.csv and
\* dies while _create_sample_products writes the file
seed_crash ==
    /\ ~Running
    /\ products_csv.state # "table"
    /\ products_prev' = Snapshot
    /\ products_df' = <<>>
    /\ products_csv' \in CrashedWrites(products_csv, SampleProducts)
    /\ cat_op' = CatOp("crashed", NoItem, <<>>, 0, NaN, FALSE)
    /\ UNCHANGED <<recommendations, product, fbvars, advars, appvars, convars>>

\* no process yet: products.csv absent, or left by an earlier process
CatInitStopped ==
    /\ products_csv \in {AbsentFile, to_csv(SampleProducts)}
    /\ products_df = <<>>
    /\ products_prev = [df |-> products_df, csv |-> products_csv]
    /\ cat_op = CatOp("stopped", NoItem, <<>>, 0, NaN, FALSE)
    /\ recommendations = <<>>
    /\ product = NotFound

\* processes that start, add products, and may die while writing
CrashNext ==
    \/ load_products
    \/ \E item \in ProductItems : add_product(item)
    \/ \E item \in ProductItems : add_product_crash(item)
    \/ seed_crash

\* the catalogs a products.csv may hold when the process starts: the one item
\* of the score scenario, the other sample item, the sample catalog, the
\* sample catalog with a third item, and the header alone
StoredCatalogs ==
    {<<SampleProducts[1]>>, <<SampleProducts[2]>>, SampleProducts,
     Append(SampleProducts, ItemNew.row), Append(SampleProducts, ItemDup.row), <<>>}

\* after ProductRecommender() in a process that found a products.csv
CatInitLoaded ==
    /\ products_csv \in {to_csv(df) : df \in StoredCatalogs}
    /\ products_df = read_csv(products_csv)
    /\ products_prev = [df |-> products_df, csv |-> products_csv]
    /\ cat_op = CatOp("init", NoItem, <<>>, 0, NaN, FALSE)
    /\ recommendations = <<>>
    /\ product = NotFound

CatNext ==
    \/ load_products
    \/ \E item \in ProductItems : add_product(item)
    \/ \E emotion \in RankerEmotions, n \in RecommendationCounts :
            get_recommendations(emotion, n)
    \/ \E id \in LookupIds : get_product_by_id(id)

(***************************************************************************)
(* The application: one run of main() per button pressed.                  *)
(***************************************************************************)
\* n_recommendations and n_playlists of the two calls of the Analyze handler
NumRecommendations == 5
NumPlaylists == 5

\* the result dict of detect_emotion, which catches what its detectors raise
Detection(success, emotion, confidence) ==
    [success |-> success, emotion |-> emotion, confidence |-> confidence]

\* the result of a failed detection
FailedDetection == Detection(FALSE, None, 0)

\* get_available_emotions(): the labels a detection can carry
AvailableEmotions == {"happy", "sad", "angry", "surprise", "fear", "disgust", "neutral"}

\* the detections of the model, confidences in hundredths
Detections ==
    {Detection(TRUE, Str(<<"happy">>), 82),
     Detection(TRUE, Str(<<"happy">>), 60),
     Detection(TRUE, Str(<<"surprise">>), 70),
     FailedDetection}

\* the positions of the Detection Confidence slider the model uses, in hundredths
Thresholds == {60, 90}

\* the ratings (of the selectbox's 1 to 5) and the feedback texts of the model
Ratings == {1, 5}
FeedbackTexts == {""}

NoAnalysis == [none |-> TRUE, result |-> FailedDetection]
Analysis(result) == [none |-> FALSE, result |-> result]
\* the recommendations kept in the session, with the emotion they were ranked for
NoFrame == [none |-> TRUE, rows |-> <<>>, emotion |-> <<>>]
Frame(rows, emotion) == [none |-> FALSE, rows |-> rows, emotion |-> emotion]
NoPlaylists == [none |-> TRUE, items |-> <<>>]
Playlists(items) == [none |-> FALSE, items |-> items]

\* result and result['success']
Succeeded(result) == result.success

\* confidence >= confidence_threshold, without the comparison
MeetsThreshold_Always(confidence, confidence_threshold) == TRUE

\* confidence >= confidence_threshold
MeetsThreshold(confidence, confidence_threshold) == confidence >= confidence_threshold

\* the provider's answers during a run of the application: every search of a
\* call is answered alike
AppAnswers(recommender) ==
    IF recommender.client THEN {[i \in 1 .. MaxTerms |-> o] : o \in Outcomes}
    ELSE {[i \in 1 .. MaxTerms |-> Raise]}

AppOp(name, detection, confidence_threshold, spotify_available, calls) ==
    [name |-> name, detection |-> detection, confidence_threshold |-> confidence_threshold,
     spotify_available |-> spotify_available, calls |-> calls]

\* the file after the create_feedback_csv() at the top of main()
CreatedFeedback(file) == IF file.state = "absent" THEN TableFile(<<>>) ELSE file

\* the calls every run of main() starts with
RunStart == <<"create_feedback_csv", "is_spotify_available">>

\* the Analyze Emotion button: main() runs, the handler detects the emotion
\* and, for a successful detection that meets the threshold, asks the ranker
\* and, when Spotify is available, the adapter
analyze_emotion(detection, confidence_threshold) ==
    \E e \in EnvRead(spotify_recommender) :
        LET recommender == GetSpotifyRecommender(spotify_recommender, e)
            spotify_available == recommender.client
            made == ~spotify_recommender.created
            ranks == Succeeded(detection)
                        /\ MeetsThreshold(detection.confidence, confidence_threshold)
            emotion == detection.emotion
        IN  /\ feedback_prev' = feedback_csv
            /\ feedback_csv' = CreatedFeedback(feedback_csv)
            /\ last_op' = Op("create_feedback_csv", NoArgs, FALSE)
            /\ UNCHANGED <<summary, clock>>
            /\ spotify_recommender' = recommender
            /\ UNCHANGED <<products_df, products_csv, product, convars>>
            /\ IF ranks
               THEN /\ products_prev' = Snapshot
                    /\ recommendations' \in
                            GetRecommendations(products_df, emotion.str, NumRecommendations)
                    /\ cat_op' = CatOp("get_recommendations", NoItem, emotion.str,
                                       NumRecommendations, NaN, FALSE)
               ELSE UNCHANGED <<products_prev, recommendations, cat_op>>
            /\ IF ranks /\ spotify_available
               THEN \E outcomes \in AppAnswers(recommender) :
                        LET got == GetPlaylistsByMood(recommender.client, emotion,
                                                      NumPlaylists, outcomes)
                        IN  /\ playlists_result' = got.result
                            /\ adapter_op' = AdapterOp("get_playlists_by_mood", emotion,
                                                       NumPlaylists, made, e, got)
                            /\ session_state' =
                                [analyzed_emotion |-> Analysis(detection),
                                 recommendations |-> Frame(recommendations', emotion.str),
                                 playlists |-> Playlists(IF got.raised THEN <<>>
                                                         ELSE got.result)]
               ELSE /\ UNCHANGED playlists_result
                    /\ adapter_op' = AdapterOp("is_spotify_available", None, 0, made, e, NoCall)
                    /\ session_state' =
                        [session_state EXCEPT
                            !.analyzed_emotion = Analysis(detection),
                            !.recommendations = IF ranks THEN Frame(recommendations', emotion.str)
                                                ELSE @]
            /\ app_op' = AppOp("analyze_emotion", detection, confidence_threshold,
                               spotify_available,
                               RunStart \o <<"detect_emotion">>
                                 \o (IF ranks THEN <<"get_recommendations">> ELSE <<>>)
                                 \o (IF ranks /\ spotify_available
                                     THEN <<"get_playlists_by_mood">> ELSE <<>>))

\* the Submit Feedback button, shown when recommendations are displayed and
\* an analysis is kept: main() runs and the handler logs the kept analysis
submit_feedback(rating, feedback_text) ==
    /\ ~session_state.recommendations.none
    /\ session_state.recommendations.rows # <<>>
    /\ ~session_state.analyzed_emotion.none
    /\ Len(CreatedFeedback(feedback_csv).rows) < MaxSubmits
    /\ \E e \in EnvRead(spotify_recommender) :
        LET recommender == GetSpotifyRecommender(spotify_recommender, e)
            result == session_state.analyzed_emotion.result
            args == FbArgs(IF result.emotion.none THEN NaN ELSE PyStr(result.emotion.str[1]),
                           PyFloat(result.confidence), PyInt(rating), PyStr(feedback_text),
                           PyInt(Len(session_state.recommendations.rows)))
        IN  /\ feedback_prev' = CreatedFeedback(feedback_csv)
            /\ feedback_csv' = to_csv(LogFeedbackFrame(CreatedFeedback(feedback_csv), clock, args))
            /\ clock' = clock + 1
            /\ last_op' = Op("log_feedback", args, FALSE)
            /\ spotify_recommender' = recommender
            /\ adapter_op' = AdapterOp("is_spotify_available", None, 0,
                                       ~spotify_recommender.created, e, NoCall)
            /\ app_op' = AppOp("submit_feedback", FailedDetection, 0, recommender.client,
                               RunStart \o <<"log_feedback">>)
            /\ UNCHANGED <<summary, playlists_result, catvars, session_state, convars>>

\* the session state of a new session
AppInit ==
    /\ session_state = [analyzed_emotion |-> NoAnalysis, recommendations |-> NoFrame,
                        playlists |-> NoPlaylists]
    /\ app_op = AppOp("init", FailedDetection, 0, FALSE, <<>>)

AppNext ==
    \/ \E detection \in Detections, confidence_threshold \in Thresholds :
            analyze_emotion(detection, confidence_threshold)
    \/ \E rating \in Ratings, feedback_text \in FeedbackTexts :
            submit_feedback(rating, feedback_text)

(***************************************************************************)
(* Two log_feedback calls, A and B, running at once: each reads the log    *)
(* (utils.py:53-56) and later writes back what it read plus its row        *)
(* (utils.py:57-58); nothing keeps the other call out in between.          *)
(***************************************************************************)
Writers == {"A", "B"}

\* a call that has not begun
NotStarted == [pc |-> "start", args |-> NoArgs, now |-> 0, df |-> <<>>]

\* the arguments of the two calls
ConcurrentArgs ==
    {FbArgs(PyStr("sad"), PyFloat(82), PyInt(4), PyStr(""), PyInt(5)),
     FbArgs(PyStr("happy"), PyFloat(100), PyInt(5), PyStr("great"), PyInt(2))}

\* the frame written back, with the log read anew at the time of writing
FrameToWrite_Reread(df, file, now, args) == LogFeedbackFrame(file, now, args)

\* the frame a call writes back: the frame it read earlier with its row
\* appended, whatever the file holds by now
FrameToWrite(df, file, now, args) == ConcatRow(df, NewFeedback(now, args))

\* a call begins: new_feedback is built with the time stamp and the log is read
log_feedback_read(w, args) ==
    /\ log_writers.calls[w].pc = "start"
    /\ log_writers' =
        [log_writers EXCEPT
            !.calls[w] = [pc |-> "read", args |-> args, now |-> clock,
                          df |-> IF feedback_csv.state = "table" THEN read_csv(feedback_csv)
                                 ELSE <<>>],
            !.steps = Append(@, <<"read", w>>)]
    /\ clock' = clock + 1
    /\ UNCHANGED <<feedback_csv, feedback_prev, last_op, summary, advars, catvars, appvars>>

\* the call goes on: the row is appended to the frame read and the file rewritten
log_feedback_write(w) ==
    /\ log_writers.calls[w].pc = "read"
    /\ feedback_prev' = feedback_csv
    /\ feedback_csv' = to_csv(FrameToWrite(log_writers.calls[w].df, feedback_csv,
                                           log_writers.calls[w].now, log_writers.calls[w].args))
    /\ last_op' = Op("log_feedback", log_writers.calls[w].args, FALSE)
    /\ log_writers' = [log_writers EXCEPT !.calls[w].pc = "done",
                                          !.steps = Append(@, <<"write", w>>)]
    /\ UNCHANGED <<summary, clock, advars, catvars, appvars>>

\* no call under way
ConInit == log_writers = [calls |-> [w \in Writers |-> NotStarted], steps |-> <<>>]

ConNext ==
    \/ \E w \in Writers, args \in ConcurrentArgs : log_feedback_read(w, args)
    \/ \E w \in Writers : log_feedback_write(w)

(***************************************************************************)
(* Specifications: one per component, the other components at rest.        *)
(***************************************************************************)
InitFeedback == FbInit /\ AdInit /\ CatInit /\ AppInit /\ ConInit
SpecFeedback == InitFeedback /\ [][FbNext]_vars

InitFeedbackForeign == FbInitForeign /\ AdInit /\ CatInit /\ AppInit /\ ConInit
SpecFeedbackForeign == InitFeedbackForeign /\ [][FbNext]_vars

InitAdapter == AdInit /\ FbStart /\ CatInit /\ AppInit /\ ConInit
SpecAdapter == InitAdapter /\ [][AdNext]_vars

InitCatalog == CatInit /\ FbStart /\ AdInit /\ AppInit /\ ConInit
SpecCatalog == InitCatalog /\ [][CatNext]_vars

\* the ranker over a stored catalog that is not added to
RankNext ==
    \/ load_products
    \/ \E emotion \in RankerEmotions, n \in RecommendationCounts :
            get_recommendations(emotion, n)
    \/ \E id \in LookupIds : get_product_by_id(id)

InitRanker == CatInitLoaded /\ FbStart /\ AdInit /\ AppInit /\ ConInit
SpecRanker == InitRanker /\ [][RankNext]_vars

\* the log before the two calls: absent, empty, or holding one record
FbInitShared ==
    FbInitFrom({AbsentFile, TableFile(<<>>),
                to_csv(<<NewFeedback(0, FbArgs(PyStr("happy"), PyFloat(60), PyInt(3),
                                               PyStr(""), PyInt(5)))>>)})

InitConcurrent == FbInitShared /\ ConInit /\ AdInit /\ CatInit /\ AppInit
SpecConcurrent == InitConcurrent /\ [][ConNext]_vars

InitCrash == CatInitStopped /\ FbStart /\ AdInit /\ AppInit /\ ConInit
SpecCrash == InitCrash /\ [][CrashNext]_vars

InitApp == AppInit /\ FbStart /\ AdInit /\ CatInit /\ ConInit
SpecApp == InitApp /\ [][AppNext]_vars

(***************************************************************************)
(* Claims about the feedback log.                                          *)
(***************************************************************************)
IsPrefix(a, b) == Len(a) <= Len(b) /\ SubSeq(b, 1, Len(a)) = a

\* rating in the integers 1..5 and confidence in [0, 1]
ValidFeedback(args) ==
    /\ args.rating.t = "int" /\ args.rating.n \in 1 .. 5
    /\ args.confidence.t = "float" /\ args.confidence.n \in 0 .. 100

\* C6: a log_feedback call whose rating is outside the integers 1..5 or whose
\* confidence is outside [0,1] is rejected (it raises) and leaves the feedback
\* log as it was.
C6_InvalidFeedbackRejected ==
    (last_op.name = "log_feedback" /\ ~ValidFeedback(last_op.args))
        => (last_op.raised /\ feedback_csv = feedback_prev)

\* C7: after a create_feedback_csv or log_feedback call the rows the log held
\* before the call are a prefix of the rows it holds afterwards, field for
\* field, and create_feedback_csv leaves an existing log untouched.
C7_LogAppendOnly ==
    /\ last_op.name \in {"create_feedback_csv", "log_feedback"}
            => IsPrefix(feedback_prev.rows, feedback_csv.rows)
    /\ (last_op.name = "create_feedback_csv" /\ feedback_prev.state # "absent")
            => feedback_csv = feedback_prev

\* emotion_distribution[e], an absent key or a no-data summary counting as 0
EmotionCount(sm, e) ==
    IF e \in DOMAIN sm.emotion_distribution THEN sm.emotion_distribution[e] ELSE 0

SameFraction(f, num, den) == f.den # 0 /\ f.num * den = num * f.den

\* the record of the end-to-end scenario: {sad, 0.82, rating 4, "", 5}
ScenarioArgs == FbArgs(PyStr("sad"), PyFloat(82), PyInt(4), PyStr(""), PyInt(5))

\* the summary the scenario expects of a log holding that record alone
ScenarioSummary(sm) ==
    /\ ~sm.none
    /\ sm.total_feedback = 1
    /\ SameFraction(sm.average_rating, 4, 1)
    /\ DOMAIN sm.emotion_distribution = {PyStr("sad")}
    /\ sm.emotion_distribution[PyStr("sad")] = 1
    /\ SameFraction(sm.confidence_stats.mean, 82, 100)
    /\ sm.confidence_stats.min = PyFloat(82)
    /\ sm.confidence_stats.max = PyFloat(82)

\* the appended record is counted once more in total_feedback and under its emotion
CountedOnceMore ==
    /\ ExportFeedbackSummary(feedback_csv).total_feedback
          = ExportFeedbackSummary(feedback_prev).total_feedback + 1
    /\ EmotionCount(ExportFeedbackSummary(feedback_csv), last_op.args.emotion)
          = EmotionCount(ExportFeedbackSummary(feedback_prev), last_op.args.emotion) + 1

\* C8: for every record appended by log_feedback, the summary taken
\* afterwards has total_feedback one more than before and counts the record's
\* emotion one more than before (an absent key or a no-data summary counting as
\* 0); and the scenario record {sad, 0.82, rating 4} appended to an empty log
\* gives total_feedback = 1, average_rating = 4, {sad: 1}, confidence
\* mean = min = max = 0.82.
C8_EveryRecordCounted ==
    /\ last_op.name = "log_feedback" => CountedOnceMore
    /\ (last_op.name = "log_feedback" /\ last_op.args = ScenarioArgs
            /\ feedback_prev.rows = <<>>)
            => ScenarioSummary(ExportFeedbackSummary(feedback_csv))

\* a row that fits the schema of the log: time stamp and emotion present,
\* confidence a number, rating and num_recommendations integers
WellFormedRow(row) ==
    /\ row.timestamp \notin NaMarkers
    /\ row.detected_emotion \notin NaMarkers
    /\ IsIntText(row.confidence) \/ IsFloatText(row.confidence)
    /\ IsIntText(row.rating)
    /\ IsIntText(row.num_recommendations)

\* C9: export_feedback_summary of a log that holds well-formed rows together
\* with malformed ones returns a summary over the well-formed rows, not the
\* no-data signal; it returns the no-data signal for an empty or absent log.
C9_MalformedRowsSkipped ==
    last_op.name = "export_feedback_summary" =>
        LET good == SelectSeq(feedback_csv.rows, WellFormedRow)
        IN  IF feedback_csv.rows = <<>> THEN summary.none
            ELSE good # <<>> => (~summary.none /\ summary.total_feedback = Len(good))

(***************************************************************************)
(* Claims about the Spotify adapter.                                       *)
(***************************************************************************)
\* C1: get_playlists_by_mood on an adapter whose client is None returns the
\* empty list, raises nothing and sends no search to the provider, whatever
\* the mood (the empty string and None included).
C1_UnavailableReturnsEmpty ==
    (adapter_op.name = "get_playlists_by_mood" /\ ~spotify_recommender.client)
        => (playlists_result = <<>> /\ ~adapter_op.raised /\ adapter_op.queries = <<>>)

\* get_playlists_by_mood(None, 2) was called on an adapter without a client
C1_Witness ==
    /\ adapter_op.name = "get_playlists_by_mood"
    /\ ~spotify_recommender.client
    /\ adapter_op.mood = None
    /\ adapter_op.n_playlists = 2

\* everything the initialization needs is there
InitCanSucceed(e) == e.client_id /\ e.client_secret /\ e.construct_ok /\ e.smoke_ok

\* C2: the adapter is initialized once.  An initialization that finds a
\* credential missing, cannot build the client or fails the test search leaves
\* the adapter Unavailable; once the instance exists no call initializes again
\* and the adapter stays as it is, Unavailable or Ready.
C2_OneShotLifecycle ==
    [][/\ spotify_recommender.created
            => (spotify_recommender' = spotify_recommender /\ ~adapter_op'.initialized)
       /\ (adapter_op'.initialized /\ ~InitCanSucceed(adapter_op'.env))
            => ~spotify_recommender'.client]_vars

\* a later get_playlists_by_mood call found the adapter Unavailable and left it so
C2_Witness ==
    /\ spotify_recommender.created
    /\ ~spotify_recommender.client
    /\ adapter_op.name = "get_playlists_by_mood"
    /\ ~adapter_op.initialized

(***************************************************************************)
(* Claims about the catalog and the ranker.                                *)
(***************************************************************************)
\* C3: for a known emotion, get_recommendations(e, n) returns at most
\* min(n, |C|) items, each of them a row of the catalog C, and no two of them
\* with the same product_id, for every catalog that load_products and
\* add_product can produce.
C3_RecommendationsFromCatalog ==
    (cat_op.name = "get_recommendations" /\ KnownEmotion(cat_op.emotion))
        => /\ Len(recommendations) <= cat_op.n_recommendations
           /\ Len(recommendations) <= Len(products_df)
           /\ \A i \in 1 .. Len(recommendations) :
                \E k \in 1 .. Len(products_df) : recommendations[i] = products_df[k]
           /\ \A i, k \in 1 .. Len(recommendations) :
                i # k => ~PyEq(recommendations[i].product_id, recommendations[k].product_id)

\* an item add(item) is to accept: every required field present, the id an
\* integer, the price a number that is not negative
AcceptableItem(item) ==
    /\ {"product_id", "name", "price", "mood_tags"} \subseteq item.keys
    /\ item.row.product_id.t = "int"
    /\ item.row.price.t \in {"int", "float"}
    /\ item.row.price.n >= 0

\* C4: add_product rejects, with a validation error, an item that lacks a
\* required field, whose id is no integer or whose price is no non-negative
\* number, and leaves the catalog in memory and the file as they were.
C4_InvalidItemRejected ==
    (cat_op.name = "add_product" /\ ~AcceptableItem(cat_op.item))
        => /\ cat_op.raised
           /\ products_df = products_prev.df
           /\ products_csv = products_prev.csv

\* C5: get_product_by_id(item.product_id) right after add_product(item), for
\* an acceptable item, returns a row equal to the item on all fields, also
\* when an earlier row has the same id.
C5_AddThenGetById ==
    [][(/\ cat_op.name = "add_product"
        /\ AcceptableItem(cat_op.item)
        /\ cat_op'.name = "get_product_by_id"
        /\ PyEq(cat_op'.product_id, cat_op.item.row.product_id))
            => (product'.found /\ product'.row = cat_op.item.row)]_vars

(***************************************************************************)
(* Claims about the application.                                           *)
(***************************************************************************)
Called(name) == \E i \in 1 .. Len(app_op.calls) : app_op.calls[i] = name

\* C10: a run of the Analyze handler calls get_recommendations or
\* get_playlists_by_mood only if the detection succeeded with a confidence of
\* at least the threshold; after a failed or below-threshold detection neither
\* was called and the results of the ranker and of the adapter are left alone.
C10_CallsOnlyAboveThreshold ==
    [][app_op'.name = "analyze_emotion"
        => /\ (\E i \in 1 .. Len(app_op'.calls) :
                    app_op'.calls[i] \in {"get_recommendations", "get_playlists_by_mood"})
                => (/\ app_op'.detection.success
                    /\ app_op'.detection.confidence >= app_op'.confidence_threshold)
           /\ (\/ ~app_op'.detection.success
               \/ app_op'.detection.confidence < app_op'.confidence_threshold)
                => (/\ UNCHANGED <<recommendations, playlists_result, products_prev>>
                    /\ cat_op'.name = cat_op.name
                    /\ adapter_op'.name # "get_playlists_by_mood"
                    /\ session_state'.recommendations = session_state.recommendations
                    /\ session_state'.playlists = session_state.playlists)]_vars

\* a successful detection below the threshold was analyzed while Spotify is
\* available and an earlier analysis had brought recommendations
C10_Witness ==
    /\ app_op.name = "analyze_emotion"
    /\ app_op.detection.success
    /\ app_op.detection.confidence < app_op.confidence_threshold
    /\ app_op.spotify_available
    /\ ~Called("get_recommendations")
    /\ ~Called("get_playlists_by_mood")
    /\ ~session_state.recommendations.none

(***************************************************************************)
(* Claims about the playlists the adapter returns.                         *)
(***************************************************************************)
\* a is b with some elements left out, the order kept
RECURSIVE IsSubsequence(_, _)
IsSubsequence(a, b) ==
    IF a = <<>> THEN TRUE
    ELSE IF b = <<>> THEN FALSE
    ELSE IF a[1] = b[1] THEN IsSubsequence(Tail(a), Tail(b))
    ELSE IsSubsequence(a, Tail(b))

\* the place a playlist first has among the accumulated candidates
FirstIndex(all, playlist) == CHOOSE j \in 1 .. Len(all) : all[j] = playlist /\ \A i \in 1 .. j - 1 : all[i] # playlist

ReadyCall == adapter_op.name = "get_playlists_by_mood" /\ spotify_recommender.client

\* C11: of the accumulated candidates whose names are equal ignoring case only
\* the first seen can be returned, also when that first one fails the quality
\* conditions; no two returned playlists have the same name ignoring case, and
\* the returned list is a subsequence of the accumulated candidates.
C11_FirstOccurrenceWins ==
    ReadyCall =>
        /\ IsSubsequence(playlists_result, adapter_op.all_playlists)
        /\ \A k, m \in 1 .. Len(playlists_result) :
                k # m => Lower(playlists_result[k].name) # Lower(playlists_result[m].name)
        /\ \A k \in 1 .. Len(playlists_result) :
                \A i \in 1 .. FirstIndex(adapter_op.all_playlists, playlists_result[k]) - 1 :
                    Lower(adapter_op.all_playlists[i].name) # Lower(playlists_result[k].name)

\* more than 10 tracks and a name of more than 3 characters
GoodQuality(playlist) == playlist.total_tracks >= 11 /\ StrLen(playlist.name) >= 4

\* the candidates before place j that are of good quality
GoodBefore(all, j) == {i \in 1 .. j - 1 : GoodQuality(all[i])}

\* C12: every returned playlist has more than 10 tracks and a name longer than
\* 3; the result has at most n_playlists entries, in the order of the
\* accumulated candidates of good quality; and a candidate of good quality
\* (11 tracks and a name of 4 included) that has no earlier namesake and fewer
\* than n_playlists good candidates before it is returned.
C12_QualityFilter ==
    ReadyCall =>
        /\ \A k \in 1 .. Len(playlists_result) : GoodQuality(playlists_result[k])
        /\ Len(playlists_result) <= adapter_op.n_playlists
        /\ IsSubsequence(playlists_result, SelectSeq(adapter_op.all_playlists, GoodQuality))
        /\ \A j \in 1 .. Len(adapter_op.all_playlists) :
            (/\ GoodQuality(adapter_op.all_playlists[j])
             /\ \A i \in 1 .. j - 1 :
                    Lower(adapter_op.all_playlists[i].name) # Lower(adapter_op.all_playlists[j].name)
             /\ Cardinality(GoodBefore(adapter_op.all_playlists, j)) < adapter_op.n_playlists)
                => \E k \in 1 .. Len(playlists_result) :
                        playlists_result[k] = adapter_op.all_playlists[j]

\* a playlist of 11 tracks and a name of 4 was returned as the second of two,
\* and a candidate of 10 tracks was among those accumulated
C12_Witness ==
    /\ ReadyCall
    /\ adapter_op.n_playlists = 2
    /\ Len(playlists_result) = 2
    /\ playlists_result[2].total_tracks = 11
    /\ StrLen(playlists_result[2].name) = 4
    /\ \E j \in 1 .. Len(adapter_op.all_playlists) : adapter_op.all_playlists[j].total_tracks = 10

(***************************************************************************)
(* Claims about the ranker's score.                                        *)
(***************************************************************************)
HeadphonesTags == PyStr("entertainment, music, joy, fun")

\* the call get_recommendations("happy", 1) on a catalog of the one item
\* tagged "entertainment, music, joy, fun"
OneItemScenario ==
    /\ cat_op.name = "get_recommendations"
    /\ cat_op.emotion = <<"happy">>
    /\ cat_op.n_recommendations = 1
    /\ Len(products_df) = 1
    /\ products_df[1].mood_tags = HeadphonesTags

\* C13 as stated: the unperturbed score of that item for "happy" is 4/6, and
\* get_recommendations("happy", 1) on the one-item catalog returns the item.
C13_ScoreFourSixths ==
    OneItemScenario =>
        /\ SameFraction(Jaccard(EmotionTags("happy"), ProductTags(products_df[1].mood_tags)), 4, 6)
        /\ recommendations = products_df

\* C13, amended: the unperturbed score of that item for "happy" is
\* |E /\ T| / |E \/ T| = 3/7 (entertainment, joy, fun of the seven tags in
\* all), and get_recommendations("happy", 1) on the one-item catalog returns
\* the item.
C13_ScoreThreeSevenths ==
    OneItemScenario =>
        /\ SameFraction(Jaccard(EmotionTags("happy"), ProductTags(products_df[1].mood_tags)), 3, 7)
        /\ recommendations = products_df

C13_Witness == OneItemScenario /\ Len(recommendations) = 1

(***************************************************************************)
(* Claims about the searches of the adapter.                               *)
(***************************************************************************)
\* the number of playlists the first k answers of the call brought
RECURSIVE Accumulated(_)
Accumulated(k) ==
    IF k = 0 THEN 0 ELSE Accumulated(k - 1) + Len(SearchPlaylists(adapter_op.answers[k]))

\* the playlists of the answers from the k-th on that did not raise, in order
RECURSIVE FromOtherTerms(_)
FromOtherTerms(k) ==
    IF k > Len(adapter_op.answers) THEN <<>>
    ELSE (IF adapter_op.answers[k].raised THEN <<>> ELSE SearchPlaylists(adapter_op.answers[k]))
            \o FromOtherTerms(k + 1)

\* C14: a call on a Ready adapter never raises; a search that raises brings
\* no playlists, the next term is searched all the same (unless it was the
\* last of the terms tried), and the playlists of the other searches are
\* accumulated and returned as if the raising search had found nothing.
C14_TermFailureContained ==
    ReadyCall =>
        /\ ~adapter_op.raised
        /\ \A k \in 1 .. Len(adapter_op.answers) :
            adapter_op.answers[k].raised
                => /\ Accumulated(k) = Accumulated(k - 1)
                   /\ (k < MaxTerms /\ Accumulated(k) < OverFetch * adapter_op.n_playlists)
                        => Len(adapter_op.queries) > k
        /\ adapter_op.all_playlists = FromOtherTerms(1)
        /\ playlists_result
            = FirstN(UniqueLoop(FromOtherTerms(1), 1, adapter_op.n_playlists, {}, <<>>),
                     adapter_op.n_playlists)

\* the first search raised, the later ones were sent and a playlist of theirs
\* was returned
C14_Witness ==
    /\ ReadyCall
    /\ Len(adapter_op.answers) = MaxTerms
    /\ adapter_op.answers[1].raised
    /\ ~adapter_op.answers[2].raised
    /\ playlists_result # <<>>

\* the first three terms the vocabulary has for the moods of the model: those
\* of happy, and the generic ones for a mood that is unknown, empty or None
ExpectedTerms ==
    IF adapter_op.mood \in {Str(<<"happy">>), Str(<<" ", "Happy", " ">>)}
    THEN <<"happy", "upbeat", "positive">>
    ELSE <<"music", "playlist", "songs">>

\* C17: a call on a Ready adapter sends at most 3 searches, the i-th for the
\* i-th term of the mood's vocabulary entry with " playlist" appended and a
\* page size of 10; a further search is sent only while the playlists
\* accumulated are fewer than 2 x n_playlists, and the terms are given up
\* early for no other reason; an unknown or empty mood is searched by the
\* terms music, playlist, songs.
C17_BoundedSearches ==
    ReadyCall =>
        /\ Len(adapter_op.queries) \in 1 .. 3
        /\ \A i \in 1 .. Len(adapter_op.queries) :
                adapter_op.queries[i] = [q |-> ExpectedTerms[i] \o " playlist", limit |-> 10]
        /\ \A i \in 2 .. Len(adapter_op.queries) :
                Accumulated(i - 1) < 2 * adapter_op.n_playlists
        /\ Len(adapter_op.queries) < 3
                => Accumulated(Len(adapter_op.queries)) >= 2 * adapter_op.n_playlists

\* a call with the empty mood for one playlist stopped after its first
\* search, "music playlist", which brought three playlists
C17_Witness ==
    /\ ReadyCall
    /\ adapter_op.mood = Str(<<>>)
    /\ adapter_op.n_playlists = 1
    /\ Len(adapter_op.queries) = 1
    /\ adapter_op.queries[1].q = "music playlist"
    /\ Len(adapter_op.all_playlists) = 3

(***************************************************************************)
(* Claims about the normalization of labels and of raw entries.            *)
(***************************************************************************)
\* C15: an emotion that is a known label but for letter case and surrounding
\* whitespace is ranked by the scores of that label, not sampled at random.
C15_EmotionTrimmed ==
    (/\ cat_op.name = "get_recommendations"
     /\ KnownEmotion(Strip(cat_op.emotion))
     /\ products_df # <<>>)
        => \E noise \in [1 .. Len(products_df) -> Perturbations] :
                recommendations
                    = Ranked(products_df, Strip(cat_op.emotion), cat_op.n_recommendations, noise)

\* a raw entry with a name, a link, and tracks and owner that are not null
WellFormedEntry(raw) ==
    ~raw.null /\ raw.name # <<>> /\ raw.urls = "ok" /\ raw.tracks # "null" /\ raw.owner # "null"

\* C16: of every answer of the provider that did not raise, each well-formed
\* entry is normalized and kept among the accumulated candidates, whatever
\* malformed entries the same answer holds.
C16_MalformedEntriesSkipped ==
    ReadyCall =>
        \A k \in 1 .. Len(adapter_op.answers) :
            ~adapter_op.answers[k].raised =>
                \A i \in 1 .. Len(adapter_op.answers[k].items) :
                    WellFormedEntry(adapter_op.answers[k].items[i]) =>
                        \E j \in 1 .. Len(adapter_op.all_playlists) :
                            adapter_op.all_playlists[j]
                                = PlaylistData(adapter_op.answers[k].items[i])

(***************************************************************************)
(* Claims about concurrent writers of the feedback log.                    *)
(***************************************************************************)
\* the log holds the row of call w
Logged(w) ==
    \E i \in 1 .. Len(feedback_csv.rows) :
        feedback_csv.rows[i].timestamp = "T" \o IntText(log_writers.calls[w].now)

BothDone == \A w \in Writers : log_writers.calls[w].pc = "done"

\* the writer of the last step
LastWriter == log_writers.steps[Len(log_writers.steps)][2]

\* both calls read before either wrote
Interleaved == log_writers.steps[1][1] = "read" /\ log_writers.steps[2][1] = "read"

\* C18: when two log_feedback calls both read the log before either writes,
\* the log ends up holding the record of the call that wrote last and not
\* the other's; when one call finishes before the other begins, the log ends
\* up holding both records.
C18_LastWriterWins ==
    BothDone =>
        IF Interleaved
        THEN /\ Logged(LastWriter)
             /\ \A w \in Writers \ {LastWriter} : ~Logged(w)
        ELSE \A w \in Writers : Logged(w)

\* read(A), read(B), write(A), write(B) was run and the log holds B's record
\* without A's
C18_Witness ==
    /\ log_writers.steps = <<<<"read", "A">>, <<"read", "B">>, <<"write", "A">>, <<"write", "B">>>>
    /\ Logged("B")
    /\ ~Logged("A")

(***************************************************************************)
(* Claims about a crash while the catalog file is rewritten.               *)
(***************************************************************************)
\* the file a finished write would have left
IntendedFile ==
    IF cat_op.item = NoItem THEN to_csv(SampleProducts)
    ELSE to_csv(ConcatRow(products_prev.df, cat_op.item.row))

\* C19: after a crash during the rewrite of add_product, or during the
\* seeding of load_products, products.csv holds the complete old contents or
\* the complete new contents.
C19_CrashAtomicWrite ==
    cat_op.name = "crashed" => products_csv \in {products_prev.csv, IntendedFile}

(***************************************************************************)
(* Claims about the feedback the application logs.                         *)
(***************************************************************************)
\* C20: the record a Submit Feedback writes has as its detected_emotion the
\* emotion, a string, for which the recommendations kept in the session were
\* ranked, and as its num_recommendations their number, also after a later
\* analysis that failed or stayed below the threshold.
C20_FeedbackMatchesRecommendations ==
    app_op.name = "submit_feedback" =>
        /\ last_op.name = "log_feedback"
        /\ last_op.args.emotion.t = "str"
        /\ <<last_op.args.emotion.s>> = Lower(session_state.recommendations.emotion)
        /\ last_op.args.num_recommendations = PyInt(Len(session_state.recommendations.rows))

(***************************************************************************)
(* Claims about the labels of the classifier.                              *)
(***************************************************************************)
\* C21: for every label the classifier can emit, an analysis that asks the
\* ranker and the adapter finds the label in both vocabularies: the ranker
\* scores by the label's tags and the adapter searches by the label's own
\* terms, not by music, playlist, songs.
C21_LabelsInBothVocabularies ==
    (/\ app_op.name = "analyze_emotion"
     /\ Called("get_recommendations")
     /\ Called("get_playlists_by_mood")
     /\ app_op.detection.emotion.str[1] \in AvailableEmotions)
        => /\ cat_op.emotion = app_op.detection.emotion.str
           /\ KnownEmotion(cat_op.emotion)
           /\ adapter_op.mood = app_op.detection.emotion
           /\ app_op.detection.emotion.str[1] \in DOMAIN MoodKeywords
           /\ \A i \in 1 .. Len(adapter_op.queries) :
                adapter_op.queries[i].q
                    = MoodKeywords[app_op.detection.emotion.str[1]][i] \o " playlist"

====
